---------------------------- MODULE Spec2Model ----------------------------
(***************************************************************************)
(* A model of the two scripts of the repository:                           *)
(*   - replay_payload.py (the Payload Replayer): three sequential HTTP     *)
(*     POST calls, SAVE / ORDER / WAIT, the works_id of the SAVE response   *)
(*     carried into the ORDER request;                                     *)
(*   - phone-identifier-ai/detect_flat_area.py (the Flat-Area Detector):   *)
(*     a fixed image pipeline ending in an area-thresholded mask.          *)
(* The two programs share nothing; each has its own specification          *)
(* (ReplayerSpec, DetectorSpec) over its own variables.                    *)
(***************************************************************************)
EXTENDS Integers, Sequences, FiniteSets, TLC

VARIABLES
    \* ---- replay_payload.py ----
    pc,             \* position in the script
    http_status,    \* HTTP status of the SAVE response (never read by the script)
    save_outcome,   \* how the SAVE call ended
    resp1_json,     \* parsed body of the SAVE response
    works_id,       \* value extracted at line 80
    order_payload,  \* the works_id field of the ORDER request body
    order_outcome,  \* how the ORDER call ended
    wait_outcome,   \* how the WAIT call ended
    trace,          \* calls and sleeps, in the order they happened
    stdout,         \* what was printed
    exited,         \* the process has ended
    exit_code,      \* its exit status, once exited
    \* ---- detect_flat_area.py ----
    dpc,            \* position in the script
    image,          \* the loaded (then resized) picture
    gray,           \* single-channel version
    blurred,        \* after GaussianBlur
    edges,          \* Canny edge map
    dilated,        \* dilated edge map
    contours,       \* external contours
    mask,           \* the mask
    idx,            \* loop index of "for cnt in contours"
    result,         \* the composited picture
    windows,        \* windows shown, in order
    steps,          \* processing steps executed, in order
    dexit           \* how the detector ended

rvars == <<pc, save_outcome, http_status, resp1_json, works_id, order_payload, order_outcome,
           wait_outcome, trace, stdout, exited, exit_code>>
dvars == <<dpc, image, gray, blurred, edges, dilated, contours, mask, idx,
           result, windows, steps, dexit>>
vars == <<rvars, dvars>>

(***************************************************************************)
(*                      PART I : replay_payload.py                         *)
(***************************************************************************)

\* Largest small integer identifier a SAVE response carries in the model.
MaxId == 12

\* ---- JSON values as Python sees them after resp.json() ----
\* Strings are sequences of one-character strings, so that str() is a real
\* conversion and can be parsed back.
JNull == [t |-> "null", n |-> 0, s |-> <<>>]
JBool(b) == [t |-> "bool", n |-> IF b THEN 1 ELSE 0, s |-> <<>>]
JInt(i) == [t |-> "int", n |-> i, s |-> <<>>]
JStr(str) == [t |-> "str", n |-> 0, s |-> str]
JEmptyList == [t |-> "list", n |-> 0, s |-> <<>>]

IdValues ==
    {JNull, JBool(FALSE), JBool(TRUE), JEmptyList}
      \cup {JInt(i) : i \in (0..MaxId) \cup {987, -3}}
      \cup {JStr(str) : str \in {<<>>, <<"a", "b">>, <<"0">>, <<"9", "8", "7">>}}

\* The value of the "data" member: a dict (with or without "id") or not a dict.
DataDict(hasId, id) == [t |-> "dict", hasId |-> hasId, id |-> id]
DataOther(kind) == [t |-> kind, hasId |-> FALSE, id |-> JNull]
DataValues ==
    {DataDict(FALSE, JNull)} \cup {DataDict(TRUE, v) : v \in IdValues}
      \cup {DataOther(k) : k \in {"null", "str", "list", "int"}}

\* A parsed SAVE body: its top-level JSON type, whether it has "data", the
\* value of "data", and the rest of its content ("other": e.g. an error code).
Body(top, hasData, data, other) ==
    [top |-> top, hasData |-> hasData, data |-> data, other |-> other]
OtherContent == {"success", "error"}
Bodies ==
    {Body(k, FALSE, DataOther("null"), "success") : k \in {"list", "str", "int", "null"}}
      \cup {Body("dict", FALSE, DataOther("null"), o) : o \in OtherContent}
      \cup {Body("dict", TRUE, d, o) : d \in DataValues, o \in OtherContent}

NoBody == Body("null", FALSE, DataOther("null"), "success")
HttpStatuses == {200, 500}

\* ---- Python helpers ----
\* The result of an expression that may raise.
Val(v) == [raised |-> FALSE, val |-> v]
Raise == [raised |-> TRUE, val |-> JNull]
EmptyDict == DataDict(FALSE, JNull)

\* resp1_json.get("data", {}): AttributeError unless resp1_json is a dict.
GetData(body) ==
    IF body.top # "dict" THEN [raised |-> TRUE, val |-> EmptyDict]
    ELSE [raised |-> FALSE, val |-> IF body.hasData THEN body.data ELSE EmptyDict]

\* <data>.get("id"): AttributeError unless <data> is a dict; None when absent.
GetId(d) ==
    IF d.t # "dict" THEN Raise
    ELSE IF d.hasId THEN Val(d.id) ELSE Val(JNull)

\* works_id = resp1_json.get("data", {}).get("id")
ExtractWorksId(body) ==
    IF GetData(body).raised THEN Raise ELSE GetId(GetData(body).val)

\* Python truth value of a JSON value.
Truthy(v) ==
    CASE v.t = "null" -> FALSE
      [] v.t = "bool" -> v.n = 1
      [] v.t = "int" -> v.n # 0
      [] v.t = "str" -> v.s # <<>>
      [] v.t = "list" -> v.n # 0

\* The test of line 81 taken as "is not a positive integer".
NotWorksIdStrict(v) == ~(v.t = "int" /\ v.n > 0)

\* The test of line 81 left out.
NotWorksIdNever(v) == FALSE

\* "not works_id" (line 81)
NotWorksId(v) == ~Truthy(v)

DigitChar == <<"0", "1", "2", "3", "4", "5", "6", "7", "8", "9">>

RECURSIVE Digits(_)
Digits(n) ==
    IF n < 10 THEN <<DigitChar[n + 1]>>
    ELSE Digits(n \div 10) \o <<DigitChar[(n % 10) + 1]>>

\* Python str() of a JSON value.
PyStr(v) ==
    CASE v.t = "null" -> <<"N", "o", "n", "e">>
      [] v.t = "bool" -> IF v.n = 1 THEN <<"T", "r", "u", "e">>
                         ELSE <<"F", "a", "l", "s", "e">>
      [] v.t = "int" -> IF v.n < 0 THEN <<"-">> \o Digits(-v.n) ELSE Digits(v.n)
      [] v.t = "str" -> v.s
      [] v.t = "list" -> <<"[", "]">>

\* The ORDER body's works_id taken from the SAVE request payload (None).
OrderWorksIdFromRequest(w) == PyStr(JNull)

\* "works_id": str(works_id) (line 95)
OrderWorksId(w) == PyStr(w)

\* ---- what each except block does ----
Halt(code) == [pc |-> "halted", exited |-> TRUE, exit_code |-> code]
Continue(next) == [pc |-> next, exited |-> FALSE, exit_code |-> 0]

\* SAVE's except block written like ORDER's: print and go on.
OnSaveErrorSwallow == Continue("sleep1")

\* except of Works.save: print, exit(1)
OnSaveError == Halt(1)

\* "No works_id returned": print, exit(1)
OnNoWorksId == Halt(1)

\* An uncaught exception ends the interpreter with status 1.
OnUncaught == Halt(1)

\* ORDER's except block written like SAVE's: print, exit(1).
OnOrderErrorFatal == Halt(1)

\* except of Order.create: print only
OnOrderError == Continue("sleep2")

\* WAIT's except block written like SAVE's: print, exit(1).
OnWaitErrorFatal == Halt(1)

\* WAIT as a polling loop: call again after a failure.
OnWaitErrorRetry == Continue("wait")

\* except of Machine.wait: print only; the script then ends, status 0
OnWaitError == [pc |-> "done", exited |-> TRUE, exit_code |-> 0]

\* How a POST followed by .json() can end.  "timeout" is the 10 s timeout.
Failures == {"connection_error", "timeout", "bad_json"}
Outcomes == {"ok"} \cup Failures

RInit ==
    /\ pc = "save"
    /\ save_outcome = "none"
    /\ http_status = 0
    /\ resp1_json = NoBody
    /\ works_id = JNull
    /\ order_payload = <<>>
    /\ order_outcome = "none"
    /\ wait_outcome = "none"
    /\ trace = <<>>
    /\ stdout = <<"sending Works.save">>
    /\ exited = FALSE
    /\ exit_code = 0

\* lines 71-77, the call failing or its body not parsing
WorksSaveFails ==
    /\ pc = "save"
    /\ \E f \in Failures :
         /\ save_outcome' = f
         /\ trace' = Append(trace, "SAVE")
         /\ stdout' = Append(stdout, "error Works.save")
         /\ pc' = OnSaveError.pc
         /\ exited' = OnSaveError.exited
         /\ exit_code' = OnSaveError.exit_code
    /\ UNCHANGED <<http_status, resp1_json, works_id, order_payload,
                   order_outcome, wait_outcome>>
    /\ UNCHANGED dvars

\* lines 71-74, the call answering with a JSON body
WorksSaveOk ==
    /\ pc = "save"
    /\ \E st \in HttpStatuses, b \in Bodies :
         /\ http_status' = st
         /\ resp1_json' = b
    /\ save_outcome' = "ok"
    /\ trace' = Append(trace, "SAVE")
    /\ stdout' = Append(stdout, "response Works.save")
    /\ pc' = "extract"
    /\ UNCHANGED <<works_id, order_payload, order_outcome, wait_outcome,
                   exited, exit_code>>
    /\ UNCHANGED dvars

\* lines 80-83
Extract ==
    /\ pc = "extract"
    /\ LET r == ExtractWorksId(resp1_json) IN
         IF r.raised
         THEN /\ stdout' = Append(stdout, "Traceback AttributeError")
              /\ pc' = OnUncaught.pc
              /\ exited' = OnUncaught.exited
              /\ exit_code' = OnUncaught.exit_code
              /\ UNCHANGED works_id
         ELSE /\ works_id' = r.val
              /\ IF NotWorksId(r.val)
                 THEN /\ stdout' = Append(stdout, "error no works_id")
                      /\ pc' = OnNoWorksId.pc
                      /\ exited' = OnNoWorksId.exited
                      /\ exit_code' = OnNoWorksId.exit_code
                 ELSE /\ pc' = "sleep1"
                      /\ UNCHANGED <<stdout, exited, exit_code>>
    /\ UNCHANGED <<save_outcome, http_status, resp1_json, order_payload, order_outcome,
                   wait_outcome, trace>>
    /\ UNCHANGED dvars

\* line 85
Sleep1 ==
    /\ pc = "sleep1"
    /\ trace' = Append(trace, "PAUSE")
    /\ pc' = "order"
    /\ UNCHANGED <<save_outcome, http_status, resp1_json, works_id, order_payload,
                   order_outcome, wait_outcome, stdout, exited, exit_code>>
    /\ UNCHANGED dvars

\* lines 88-121
OrderCreate ==
    /\ pc = "order"
    /\ order_payload' = OrderWorksId(works_id)
    /\ trace' = Append(trace, "ORDER")
    /\ \E o \in Outcomes :
         /\ order_outcome' = o
         /\ IF o = "ok"
            THEN /\ stdout' = stdout \o <<"sending Order.create", "response Order.create">>
                 /\ pc' = "sleep2"
                 /\ UNCHANGED <<exited, exit_code>>
            ELSE /\ stdout' = stdout \o <<"sending Order.create", "error Order.create">>
                 /\ pc' = OnOrderError.pc
                 /\ exited' = OnOrderError.exited
                 /\ exit_code' = OnOrderError.exit_code
    /\ UNCHANGED <<save_outcome, http_status, resp1_json, works_id, wait_outcome>>
    /\ UNCHANGED dvars

\* line 123
Sleep2 ==
    /\ pc = "sleep2"
    /\ trace' = Append(trace, "PAUSE")
    /\ pc' = "wait"
    /\ UNCHANGED <<save_outcome, http_status, resp1_json, works_id, order_payload,
                   order_outcome, wait_outcome, stdout, exited, exit_code>>
    /\ UNCHANGED dvars

\* lines 126-140 and the end of the script
MachineWait ==
    /\ pc = "wait"
    /\ trace' = Append(trace, "WAIT")
    /\ \E o \in Outcomes :
         /\ wait_outcome' = o
         /\ IF o = "ok"
            THEN /\ stdout' = stdout \o <<"sending Machine.wait", "response Machine.wait">>
                 /\ pc' = "done"
                 /\ exited' = TRUE
                 /\ exit_code' = 0
            ELSE /\ stdout' = stdout \o <<"sending Machine.wait", "error Machine.wait">>
                 /\ pc' = OnWaitError.pc
                 /\ exited' = OnWaitError.exited
                 /\ exit_code' = OnWaitError.exit_code
    /\ UNCHANGED <<save_outcome, http_status, resp1_json, works_id, order_payload, order_outcome>>
    /\ UNCHANGED dvars


RNext ==
    \/ WorksSaveFails
    \/ WorksSaveOk
    \/ Extract
    \/ Sleep1
    \/ OrderCreate
    \/ Sleep2
    \/ MachineWait

(***************************************************************************)
(*              PART II : phone-identifier-ai/detect_flat_area.py          *)
(*                                                                         *)
(* A picture is followed at NumSamples sample pixels (the same positions,  *)
(* in relative coordinates, in every buffer of the pipeline).  Pointwise   *)
(* steps (cvtColor, the mask, drawContours, bitwise_and) are computed at   *)
(* the samples.  Neighbourhood steps are OpenCV's: a picture of one colour *)
(* stays of one colour under resize and GaussianBlur and has no Canny      *)
(* edge; otherwise their output is any output.  An edge map is followed    *)
(* only as empty or not.                                                   *)
(***************************************************************************)

\* Number of sample pixels followed.
NumSamples == 2

\* Largest number of contours findContours returns in the model.
MaxContours == 2

\* cv2.resize(image, (500, 1000)): dsize is (width, height)
ResizeWidth == 500
ResizeHeight == 1000

\* if area < 30000
AreaThreshold == 30000

\* np.ones_like(...) * 255
MaskWhite == 255

\* drawContours(..., 0, -1): the colour drawn
FillColour == 0

Samples == 1..NumSamples
White == <<255, 255, 255>>
Teal == <<200, 144, 30>>
Black == <<0, 0, 0>>
Colours == {White, Teal}

Picture(h, w, uniform, px) ==
    [loaded |-> TRUE, h |-> h, w |-> w, uniform |-> uniform, px |-> px]

\* What cv2.imread returns for a file it cannot read.
None == [loaded |-> FALSE, h |-> 0, w |-> 0, uniform |-> TRUE,
         px |-> [p \in Samples |-> Black]]

FileShapes == {<<480, 640>>, <<1000, 500>>}

\* The pictures phone_case.jpg can hold: of one colour, or not.
Files ==
    {Picture(sh[1], sh[2], TRUE, [p \in Samples |-> c]) :
        sh \in FileShapes, c \in Colours}
      \cup {Picture(sh[1], sh[2], FALSE, px) :
              sh \in FileShapes, px \in [Samples -> Colours]}

\* The test of line 6 left out.
ImageIsNoneNever(img) == FALSE

\* "image is None" (line 6)
ImageIsNone(img) == ~img.loaded

\* cv2.cvtColor(.., COLOR_BGR2GRAY) of one pixel: fixed-point BT.601 weights.
GrayOf(c) == (c[1] * 1868 + c[2] * 9617 + c[3] * 4899 + 8192) \div 16384

\* np.zeros_like(gray) in place of np.ones_like(gray) * 255.
ZerosLike(g) == [h |-> g.h, w |-> g.w, px |-> [p \in Samples |-> 0]]

\* np.ones_like(gray, dtype=np.uint8) * 255 (line 28)
OnesLikeTimes255(g) ==
    [h |-> g.h, w |-> g.w, px |-> [p \in Samples |-> (1 * MaskWhite) % 256]]

\* cv2.contourArea(cnt)
contourArea(cnt) == cnt.area

\* The threshold test written "<=".
ShouldFillInclusive(area) == area <= AreaThreshold

\* "area < 30000" (line 33)
ShouldFill(area) == area < AreaThreshold

\* cv2.drawContours(mask, [cnt], -1, 0, -1): fill the contour's inside.
drawContours(m, cnt) ==
    [m EXCEPT !.px = [p \in Samples |-> IF p \in cnt.region THEN FillColour ELSE m.px[p]]]

\* Bitwise AND of two 8-bit values.
RECURSIVE BitAnd(_, _)
BitAnd(a, b) ==
    IF a = 0 \/ b = 0 THEN 0
    ELSE 2 * BitAnd(a \div 2, b \div 2) + (IF a % 2 = 1 /\ b % 2 = 1 THEN 1 ELSE 0)

\* cv2.bitwise_and(a, b, mask=m): the AND where the mask is non-zero, 0 elsewhere.
bitwise_and(a, b, m) ==
    [h |-> a.h, w |-> a.w,
     px |-> [p \in Samples |->
               IF m.px[p] # 0
               THEN <<BitAnd(a.px[p][1], b.px[p][1]), BitAnd(a.px[p][2], b.px[p][2]),
                      BitAnd(a.px[p][3], b.px[p][3])>>
               ELSE Black]]

\* The measured areas tried: just under, at and just over the threshold.
AreaSamples == {AreaThreshold - 1, AreaThreshold, AreaThreshold + 1}

Contour(area, region) == [area |-> area, region |-> region]

\* RETR_EXTERNAL: the outer borders of distinct connected components none of
\* which lies inside another, so the insides of two contours share no pixel.
PairwiseDisjoint(cs) ==
    \A i, j \in DOMAIN cs : i # j => cs[i].region \cap cs[j].region = {}

ContourLists ==
    {cs \in UNION {[1..k -> [area : AreaSamples, region : SUBSET Samples]] :
                      k \in 1..MaxContours} : PairwiseDisjoint(cs)}

\* cv2.findContours(dilated, RETR_EXTERNAL, CHAIN_APPROX_SIMPLE)
findContours(d) == IF d.any THEN ContourLists ELSE {<<>>}

NoGray == [h |-> 0, w |-> 0, uniform |-> TRUE, px |-> [p \in Samples |-> 0]]
NoBlur == [h |-> 0, w |-> 0, uniform |-> TRUE, level |-> 0]
NoMap == [h |-> 0, w |-> 0, any |-> FALSE]
NoMask == [h |-> 0, w |-> 0, px |-> [p \in Samples |-> 0]]
NoResult == [h |-> 0, w |-> 0, px |-> [p \in Samples |-> Black]]

WindowNames == <<"Original", "Edges", "Flat Area Mask", "Final Result (Safe to Print)">>

DInit ==
    /\ dpc = "load"
    /\ image = None
    /\ gray = NoGray
    /\ blurred = NoBlur
    /\ edges = NoMap
    /\ dilated = NoMap
    /\ contours = <<>>
    /\ mask = NoMask
    /\ idx = 1
    /\ result = NoResult
    /\ windows = <<>>
    /\ steps = <<>>
    /\ dexit = "running"

\* lines 5-7
Load ==
    /\ dpc = "load"
    /\ \E img \in Files \cup {None} :
         /\ image' = img
         /\ IF ImageIsNone(img)
            THEN dpc' = "halted" /\ dexit' = "ValueError"
            ELSE dpc' = "resize" /\ dexit' = dexit
    /\ UNCHANGED <<gray, blurred, edges, dilated, contours, mask, idx, result,
                   windows, steps>>
    /\ UNCHANGED rvars

\* line 10
Resize ==
    /\ dpc = "resize"
    /\ \E px \in [Samples -> Colours] :
         /\ image.uniform => px = image.px
         /\ image' = [image EXCEPT !.h = ResizeHeight, !.w = ResizeWidth, !.px = px]
    /\ steps' = Append(steps, "resize")
    /\ dpc' = "cvtColor"
    /\ UNCHANGED <<gray, blurred, edges, dilated, contours, mask, idx, result,
                   windows, dexit>>
    /\ UNCHANGED rvars

\* line 13
CvtColor ==
    /\ dpc = "cvtColor"
    /\ gray' = [h |-> image.h, w |-> image.w, uniform |-> image.uniform,
                px |-> [p \in Samples |-> GrayOf(image.px[p])]]
    /\ steps' = Append(steps, "cvtColor")
    /\ dpc' = "GaussianBlur"
    /\ UNCHANGED <<image, blurred, edges, dilated, contours, mask, idx, result,
                   windows, dexit>>
    /\ UNCHANGED rvars

\* line 16
GaussianBlur ==
    /\ dpc = "GaussianBlur"
    /\ blurred' = [h |-> gray.h, w |-> gray.w, uniform |-> gray.uniform,
                   level |-> IF gray.uniform THEN gray.px[1] ELSE 0]
    /\ steps' = Append(steps, "GaussianBlur")
    /\ dpc' = "Canny"
    /\ UNCHANGED <<image, gray, edges, dilated, contours, mask, idx, result,
                   windows, dexit>>
    /\ UNCHANGED rvars

\* line 19
Canny ==
    /\ dpc = "Canny"
    /\ \E any \in BOOLEAN :
         /\ blurred.uniform => ~any
         /\ edges' = [h |-> blurred.h, w |-> blurred.w, any |-> any]
    /\ steps' = Append(steps, "Canny")
    /\ dpc' = "dilate"
    /\ UNCHANGED <<image, gray, blurred, dilated, contours, mask, idx, result,
                   windows, dexit>>
    /\ UNCHANGED rvars

\* line 22
Dilate ==
    /\ dpc = "dilate"
    /\ dilated' = edges
    /\ steps' = Append(steps, "dilate")
    /\ dpc' = "findContours"
    /\ UNCHANGED <<image, gray, blurred, edges, contours, mask, idx, result,
                   windows, dexit>>
    /\ UNCHANGED rvars

\* line 25
FindContours ==
    /\ dpc = "findContours"
    /\ contours' \in findContours(dilated)
    /\ steps' = Append(steps, "findContours")
    /\ dpc' = "mask"
    /\ UNCHANGED <<image, gray, blurred, edges, dilated, mask, idx, result,
                   windows, dexit>>
    /\ UNCHANGED rvars

\* line 28
CreateMask ==
    /\ dpc = "mask"
    /\ mask' = OnesLikeTimes255(gray)
    /\ idx' = 1
    /\ steps' = Append(steps, "mask")
    /\ dpc' = "loop"
    /\ UNCHANGED <<image, gray, blurred, edges, dilated, contours, result,
                   windows, dexit>>
    /\ UNCHANGED rvars

\* lines 31-34, one iteration
LoopBody ==
    /\ dpc = "loop"
    /\ idx <= Len(contours)
    /\ LET cnt == contours[idx]
           area == contourArea(cnt)
       IN  mask' = IF ShouldFill(area) THEN drawContours(mask, cnt) ELSE mask
    /\ idx' = idx + 1
    /\ UNCHANGED <<dpc, image, gray, blurred, edges, dilated, contours, result,
                   windows, steps, dexit>>
    /\ UNCHANGED rvars

\* line 31, the loop running out of contours
LoopEnd ==
    /\ dpc = "loop"
    /\ idx > Len(contours)
    /\ steps' = Append(steps, "loop")
    /\ dpc' = "bitwise_and"
    /\ UNCHANGED <<image, gray, blurred, edges, dilated, contours, mask, idx,
                   result, windows, dexit>>
    /\ UNCHANGED rvars

\* line 37
Composite ==
    /\ dpc = "bitwise_and"
    /\ result' = bitwise_and(image, image, mask)
    /\ steps' = Append(steps, "bitwise_and")
    /\ dpc' = "imshow"
    /\ UNCHANGED <<image, gray, blurred, edges, dilated, contours, mask, idx,
                   windows, dexit>>
    /\ UNCHANGED rvars

\* lines 40-43
Show ==
    /\ dpc = "imshow"
    /\ windows' = windows \o WindowNames
    /\ steps' = Append(steps, "imshow")
    /\ dpc' = "waitKey"
    /\ UNCHANGED <<image, gray, blurred, edges, dilated, contours, mask, idx,
                   result, dexit>>
    /\ UNCHANGED rvars

\* lines 44-45, a key being pressed
WaitKey ==
    /\ dpc = "waitKey"
    /\ steps' = steps \o <<"waitKey", "destroyAllWindows">>
    /\ dpc' = "done"
    /\ dexit' = "0"
    /\ UNCHANGED <<image, gray, blurred, edges, dilated, contours, mask, idx,
                   result, windows>>
    /\ UNCHANGED rvars

DNext ==
    \/ Load
    \/ Resize
    \/ CvtColor
    \/ GaussianBlur
    \/ Canny
    \/ Dilate
    \/ FindContours
    \/ CreateMask
    \/ LoopBody
    \/ LoopEnd
    \/ Composite
    \/ Show
    \/ WaitKey

(***************************************************************************)
(*                           Specifications                                *)
(***************************************************************************)
Init == RInit /\ DInit

ReplayerSpec == Init /\ [][RNext]_vars
DetectorSpec == Init /\ [][DNext]_vars

\* The script runs on: every call returns or times out, every sleep ends.
ReplayerLive == ReplayerSpec /\ WF_vars(RNext)

(***************************************************************************)
(*                     Properties of the Payload Replayer                  *)
(***************************************************************************)
Issued(call) == \E i \in DOMAIN trace : trace[i] = call
Count(call) == Cardinality({i \in DOMAIN trace : trace[i] = call})

\* The SAVE response is a JSON object whose "data" is an object with an "id".
HasDataId(b) == b.top = "dict" /\ b.hasData /\ b.data.t = "dict" /\ b.data.hasId

\* The same, the id not being null (a null id read as no identifier).
HasNonNullDataId(b) == HasDataId(b) /\ b.data.id.t # "null"

\* The same, the id being a number or a non-empty string: what any reading
\* calls an identifier.
CarriesIdentifier(b) ==
    /\ HasDataId(b)
    /\ b.data.id.t = "int" \/ (b.data.id.t = "str" /\ b.data.id.s # <<>>)

SaveAnswered == save_outcome = "ok"
SaveFailed == save_outcome \in Failures

RECURSIVE DecimalValue(_)
DecimalValue(str) ==
    IF str = <<>> THEN 0
    ELSE 10 * DecimalValue(SubSeq(str, 1, Len(str) - 1))
           + (CHOOSE d \in 0..9 : DigitChar[d + 1] = str[Len(str)])

IsDecimal(str) ==
    /\ Len(str) >= 1
    /\ \A i \in DOMAIN str : \E d \in 0..9 : DigitChar[d + 1] = str[i]
    /\ Len(str) > 1 => str[1] # "0"

\* str is the text Python prints for the JSON value v.
IsStringFormOf(str, v) ==
    CASE v.t = "int" ->
           IF v.n < 0
           THEN /\ Len(str) >= 2
                /\ str[1] = "-"
                /\ IsDecimal(Tail(str))
                /\ DecimalValue(Tail(str)) = -v.n
           ELSE IsDecimal(str) /\ DecimalValue(str) = v.n
      [] v.t = "str" -> str = v.s
      [] v.t = "bool" -> str = IF v.n = 1 THEN <<"T", "r", "u", "e">>
                               ELSE <<"F", "a", "l", "s", "e">>
      [] OTHER -> FALSE

\* C1: whenever ORDER has been issued, its works_id is the string form of the
\* data.id of this run's SAVE response (987 gives "987"); ORDER never carries
\* a works_id that did not come from the SAVE response.
C1_OrderCarriesSavedId ==
    Issued("ORDER") =>
      /\ SaveAnswered
      /\ HasDataId(resp1_json)
      /\ IsStringFormOf(order_payload, resp1_json.data.id)
      /\ resp1_json.data.id = JInt(987) => order_payload = <<"9", "8", "7">>

C1_Witness ==
    /\ Issued("ORDER")
    /\ resp1_json.data.id = JInt(987)
    /\ order_payload = <<"9", "8", "7">>

\* C2: a SAVE response that parses but has no data.id field (no data at all,
\* data not an object, body not an object, data without id) ends the run with
\* exit code 1, and neither ORDER nor WAIT is ever issued.
C2_NoIdHalts ==
    (SaveAnswered /\ ~HasDataId(resp1_json)) =>
      /\ ~Issued("ORDER")
      /\ ~Issued("WAIT")
      /\ pc \in {"extract", "halted"}
      /\ pc = "halted" => (exited /\ exit_code = 1)

C2_Witness ==
    /\ SaveAnswered
    /\ resp1_json.top = "dict"
    /\ ~resp1_json.hasData
    /\ exited
    /\ exit_code = 1
    /\ trace = <<"SAVE">>

\* C3: a SAVE call that fails in transport, times out or returns a body that
\* is not JSON prints an error and ends the run with a nonzero exit code; no
\* ORDER, no WAIT and no sleep follows.
C3_SaveFailureFatal ==
    SaveFailed =>
      /\ exited
      /\ exit_code # 0
      /\ stdout[Len(stdout)] = "error Works.save"
      /\ trace = <<"SAVE">>

C3_Witness ==
    /\ save_outcome = "timeout"
    /\ exited
    /\ exit_code = 1
    /\ trace = <<"SAVE">>

\* C4: once SAVE has yielded a works_id, an ORDER call that fails (transport
\* error, timeout, unparseable response) does not end the run, and WAIT is
\* issued afterwards, as it is after an ORDER call that succeeds.
C4_OrderFailureNonFatal ==
    /\ [](order_outcome \in Failures => (~exited \/ Issued("WAIT")))
    /\ (order_outcome \in Failures) ~> Issued("WAIT")
    /\ (order_outcome = "ok") ~> Issued("WAIT")

C4_Witness ==
    /\ order_outcome = "connection_error"
    /\ Issued("WAIT")
    /\ trace = <<"SAVE", "PAUSE", "ORDER", "PAUSE", "WAIT">>

\* A value the script accepts as an identifier: not None, false, 0, "" or [].
IsUsableId(v) ==
    /\ v.t \in {"int", "str", "bool"}
    /\ v # JInt(0)
    /\ v # JStr(<<>>)
    /\ v # JBool(FALSE)

SaveGaveUsableId ==
    SaveAnswered /\ HasDataId(resp1_json) /\ IsUsableId(resp1_json.data.id)

FullRun == <<"SAVE", "PAUSE", "ORDER", "PAUSE", "WAIT">>

\* C10: the calls are issued in the order SAVE, ORDER, WAIT, each at most
\* once, with a pause right before ORDER and right before WAIT and nowhere
\* else: a complete run is SAVE, pause, ORDER, pause, WAIT, and a run that
\* halts at SAVE is the one call SAVE.
C10_CallOrder ==
    /\ Len(trace) <= Len(FullRun)
    /\ trace = SubSeq(FullRun, 1, Len(trace))
    /\ pc = "done" => trace = FullRun
    /\ pc = "halted" => trace = <<"SAVE">>
    /\ exited <=> pc \in {"done", "halted"}

C10_Witness ==
    /\ pc = "done"
    /\ trace = FullRun
    /\ Count("PAUSE") = 2
    /\ wait_outcome \in Failures

(***************************************************************************)
(*                    Properties of the Flat-Area Detector                 *)
(***************************************************************************)
AfterLoop == dpc \in {"bitwise_and", "imshow", "waitKey", "done"}
AfterComposite == dpc \in {"imshow", "waitKey", "done"}
AfterFindContours == dpc \in {"mask", "loop"} \/ AfterLoop
AfterCreateMask == dpc = "loop" \/ AfterLoop

\* C7: after the contour loop, the mask is still 255 wherever a contour of
\* area >= 30,000 lies (30,000 itself included) and is 0 everywhere inside a
\* contour of area < 30,000.
C7_MaskByArea ==
    AfterLoop =>
      \A i \in DOMAIN contours :
        /\ contours[i].area >= 30000 =>
             \A p \in contours[i].region : mask.px[p] = 255
        /\ contours[i].area < 30000 =>
             \A p \in contours[i].region : mask.px[p] = 0

C7_Witness ==
    /\ AfterLoop
    /\ \E i, j \in DOMAIN contours :
         /\ contours[i].area = 30000
         /\ contours[i].region # {}
         /\ \A p \in contours[i].region : mask.px[p] = 255
         /\ contours[j].area = 29999
         /\ contours[j].region # {}
         /\ \A p \in contours[j].region : mask.px[p] = 0

\* C8: with zero contours (what a picture of one colour, such as an all-white
\* one, gives) the mask is 255 at every pixel and has the dimensions of the
\* resized picture, 500 wide and 1000 high, and the composited result equals
\* the resized picture pixel for pixel.
C8_NoContours ==
    /\ (AfterFindContours /\ image.uniform) => contours = <<>>
    /\ AfterCreateMask =>
         (mask.h = image.h /\ mask.w = image.w /\ mask.h = 1000 /\ mask.w = 500)
    /\ (AfterLoop /\ contours = <<>>) => \A p \in Samples : mask.px[p] = 255
    /\ (AfterComposite /\ contours = <<>>) =>
         (result.h = image.h /\ result.w = image.w /\ result.px = image.px)

C8_Witness ==
    /\ dpc = "done"
    /\ image.uniform
    /\ \A p \in Samples : image.px[p] = White
    /\ contours = <<>>
    /\ \A p \in Samples : mask.px[p] = 255
    /\ result.px = image.px

AllSteps ==
    <<"resize", "cvtColor", "GaussianBlur", "Canny", "dilate", "findContours",
      "mask", "loop", "bitwise_and", "imshow", "waitKey", "destroyAllWindows">>

\* C9: the only failure is the image not loading: the run then ends with the
\* error before any processing step and before any window; when the image
\* loads, no step is skipped and none fails: the run can always go on to the
\* next step, and it ends with status 0 having executed every step, resize
\* through the four windows and the key press.
C9_OnlyLoadFails ==
    /\ dexit \in {"running", "ValueError", "0"}
    /\ dexit = "ValueError" <=> (dpc # "load" /\ ~image.loaded)
    /\ dexit = "ValueError" => (dpc = "halted" /\ steps = <<>> /\ windows = <<>>)
    /\ (image.loaded /\ dpc # "done") => (dexit = "running" /\ ENABLED DNext)
    /\ Len(steps) <= Len(AllSteps) /\ steps = SubSeq(AllSteps, 1, Len(steps))
    /\ dpc = "done" => (dexit = "0" /\ steps = AllSteps /\ windows = WindowNames)
    /\ windows # <<>> => Len(steps) >= 10

C9_Witness ==
    /\ dexit = "ValueError"
    /\ ~image.loaded
    /\ steps = <<>>
    /\ windows = <<>>

=============================================================================
